---- MODULE Spec2Model ----
(***************************************************************************)
(* Source acquisition of the godojo installer (godojo.go): main's branch   *)
(* on SourceInstall, getDojoRelease (release tarball) and getDojoSource    *)
(* (git clone of a commit or a branch).                                    *)
(*                                                                         *)
(* A path is the sequence of its components, so "/opt/dojo/dojo" is        *)
(* <<"opt", "dojo", "dojo">>.  The file system is a function from the      *)
(* paths the program can touch to the kind of entry found there.  Calls    *)
(* into the operating system, the network and go-git are the environment:  *)
(* each returns one of the results its signature allows, chosen            *)
(* nondeterministically within what the file system permits.               *)
(***************************************************************************)
EXTENDS Integers, Sequences, FiniteSets, TLC

VARIABLES
    cfg,        \* conf.Install, read only
    fs,         \* the file system under Root
    fs0,        \* the file system when the run began
    pc,         \* position of the single thread of control
    ret,        \* what the acquirer returned: "none" until it returns
    ops,        \* the external calls made so far, with their results
    calls,      \* the acquirers main has invoked, in order
    status,     \* resp.Status of the HTTP response, 0 before the GET
    content,    \* what the tarball file holds
    exitCode,   \* -1 while the process runs
    errorLog,   \* the lines written through the Error logger
    stdout      \* what the run printed about its outcome

vars == <<cfg, fs, fs0, pc, ret, ops, calls, status, content, exitCode, errorLog, stdout>>

-----------------------------------------------------------------------------
(* Configuration values                                                    *)

Versions == {"1.2.3", "2.0.0"}
Commits  == {"", "abc123"}
Branches == {"", "release/2.0"}

\* cfg.Root, "/opt/dojo"
Root == <<"opt", "dojo">>

\* "django-DefectDojo-"+i.Version
VersionedName(v) == "django-DefectDojo-" \o v

\* "dojo-v" + i.Version + ".tar.gz"
TarballName(v) == "dojo-v" \o v \o ".tar.gz"

\* The values of cfg.Source, each as the components of the relative path:
\* "", "dojo", the versioned name, a directory of the release inside the
\* versioned directory, and the name of the tarball.
Sources(v) ==
    { <<>>, <<"dojo">>, <<VersionedName(v)>>, <<VersionedName(v), "dojo">>,
      <<TarballName(v)>> }

Configs ==
    { [Root |-> Root, Source |-> s, Version |-> v, SourceInstall |-> si,
       SourceCommit |-> c, SourceBranch |-> b, Quiet |-> q] :
        v \in Versions, s \in UNION { Sources(w) : w \in Versions },
        si \in BOOLEAN, c \in Commits, b \in Branches, q \in BOOLEAN }

-----------------------------------------------------------------------------
(* Paths                                                                   *)

\* filepath.Join of a path and a relative path: empty elements are ignored.
Join(a, b) == a \o SelectSeq(b, LAMBDA e : e # "")

\* ReleaseURL + i.Version + ".tar.gz"
dwnURL(c) == "https://github.com/DefectDojo/django-DefectDojo/archive/" \o c.Version \o ".tar.gz"

\* i.Root + "/dojo-v" + i.Version + ".tar.gz"
tarball(c) == c.Root \o <<TarballName(c.Version)>>

\* filepath.Join(i.Root, "django-DefectDojo-"+i.Version)
oldPath(c) == Join(c.Root, <<VersionedName(c.Version)>>)

\* The rename to a name written into the program instead of the configured one.
newPathFixedName(c) == Join(c.Root, <<"source">>)

\* filepath.Join(i.Root, i.Source)
newPath(c) == Join(c.Root, c.Source)

\* filepath.Join(i.Root, i.Source) in getDojoSource
srcPath(c) == Join(c.Root, c.Source)

IsPrefix(p, q) == Len(p) <= Len(q) /\ SubSeq(q, 1, Len(p)) = p
IsStrictPrefix(p, q) == IsPrefix(p, q) /\ p # q
Parent(p) == SubSeq(p, 1, Len(p) - 1)

\* Every path the program can name, for every configuration.
Paths ==
    {Root, Join(Root, <<"source">>)}
    \cup { Join(Root, s) : s \in UNION { Sources(v) : v \in Versions } }

-----------------------------------------------------------------------------
(* The file system                                                         *)

\* "noaccess": an entry that cannot be inspected (stat fails, not with ENOENT).
Kinds == {"absent", "file", "emptydir", "tree", "noaccess"}

IsDir(k) == k \in {"emptydir", "tree"}

\* Directories above Root ("/", "/opt") exist.
KindAt(f, p) == IF p \in DOMAIN f THEN f[p] ELSE IF IsStrictPrefix(p, Root) THEN "tree" ELSE "absent"

\* A file system in which path p is of kind k: what lies above p is a
\* directory holding it when p exists; Root exists in any case unless it is
\* p itself; nothing else is there.
InitFs(p, k) ==
    [q \in Paths |->
        IF q = p THEN k
        ELSE IF q = Root THEN "tree"
        ELSE IF IsStrictPrefix(q, p) /\ k # "absent" THEN "tree"
        ELSE "absent"]

\* f with path p of kind k; the directory holding p is no longer empty.
WithEntry(f, p, k) ==
    [q \in DOMAIN f |->
        IF q = p THEN k
        ELSE IF q = Parent(p) /\ f[q] = "emptydir" THEN "tree"
        ELSE f[q]]

\* os.Create(name) can succeed: the directory holding it exists and name is
\* not a directory.
CanCreate(f, p) ==
    /\ IsDir(KindAt(f, Parent(p)))
    /\ KindAt(f, p) \in {"absent", "file"}

\* os.Rename(old, new) of a directory can succeed: old exists, the directory
\* holding new exists and nothing is at new.  os.Rename looks at new first
\* and returns EEXIST for every directory it finds there, old itself
\* included; a file there, or a new inside old, fails in the system call.
CanRename(f, old, new) ==
    /\ IsDir(KindAt(f, old))
    /\ ~IsPrefix(old, new)
    /\ ~IsPrefix(new, old)
    /\ IsDir(KindAt(f, Parent(new)))
    /\ KindAt(f, new) = "absent"

\* The file system after os.Rename(old, new) succeeded: new is what old was,
\* with what old held, and nothing is left at old.
Renamed(f, old, new) ==
    [q \in DOMAIN f |->
        IF q = new THEN f[old]
        ELSE IF IsStrictPrefix(new, q)
            THEN KindAt(f, old \o SubSeq(q, Len(new) + 1, Len(q)))
        ELSE IF IsPrefix(old, q) THEN "absent"
        ELSE IF q = Parent(new) /\ f[q] = "emptydir" THEN "tree"
        ELSE f[q]]

\* os.MkdirAll(path) can succeed: nothing on the way is a file or closed.
CanMkdirAll(f, p) ==
    \A i \in 0..Len(p) : KindAt(f, SubSeq(p, 1, i)) \in {"absent", "emptydir", "tree"}

\* The file system after os.MkdirAll(path) succeeded: path and every missing
\* directory above it exist.
MadeDirs(f, p) ==
    [q \in DOMAIN f |->
        IF q = p THEN (IF f[q] = "absent" THEN "emptydir" ELSE f[q])
        ELSE IF IsStrictPrefix(q, p) THEN "tree"
        ELSE f[q]]

\* What a failed os.MkdirAll(path) can leave: the file system as it was, or
\* with some of the missing directories above path made.
PartlyMadeDirs(f, p) ==
    {f} \cup { MadeDirs(f, SubSeq(p, 1, i)) :
                i \in { j \in Len(Root)..(Len(p) - 1) : CanMkdirAll(f, SubSeq(p, 1, j)) } }

\* os.Stat(path) returns an error.
StatFails(f, p) == KindAt(f, p) \in {"absent", "noaccess"}

-----------------------------------------------------------------------------
(* Errors                                                                  *)

Errors ==
    { "GetErr", "CreateErr", "WriteErr", "OpenErr", "UntarErr", "RenameErr",
      "MkdirErr", "CloneErr", "WorktreeErr", "CheckoutErr", "ConfigErr" }

NetworkOps == {"Get", "PlainClone", "PlainCloneBranch"}

\* One external call: what was called, on what, and the error it returned.
Op(name, arg, e) == [op |-> name, arg |-> arg, err |-> e]

-----------------------------------------------------------------------------
(* Initial states: any configuration, and any kind of entry at Root/Source *)

Init ==
    /\ cfg \in Configs
    /\ \E k \in Kinds : fs = InitFs(srcPath(cfg), k)
    /\ fs0 = fs
    /\ pc = "main_start"
    /\ ret = "none"
    /\ ops = <<>>
    /\ calls = <<>>
    /\ status = 0
    /\ content = "none"
    /\ exitCode = -1
    /\ errorLog = <<>>
    /\ stdout = <<>>

-----------------------------------------------------------------------------
(* getDojoRelease                                                          *)

\* The successor of each step of getDojoRelease when the step succeeded.
relSteps ==
    [rel_get |-> "rel_create", rel_create |-> "rel_copy", rel_copy |-> "rel_open",
     rel_open |-> "rel_untar", rel_untar |-> "rel_rename", rel_rename |-> "main_ret"]

\* Where getDojoRelease goes after a step that returned e: every step is
\* followed by "if err != nil { return err }"; after the last, return nil.
relNext(step, e) == IF e # "nil" THEN "main_ret" ELSE relSteps[step]

\* One step of getDojoRelease returned e, having made the call named name.
relStep(step, name, arg, e) ==
    /\ pc = step
    /\ ops' = Append(ops, Op(name, arg, e))
    /\ pc' = relNext(step, e)
    /\ ret' = IF pc' = "main_ret" THEN e ELSE ret
    /\ UNCHANGED <<cfg, fs0, calls, exitCode, errorLog, stdout>>

\* resp.Status is one of the success statuses.
IsSuccessStatus(st) == st \div 100 = 2

\* resp, err := ddClient.Get(dwnURL): a transport error or a timeout, or a
\* response of whatever status.  The status is traced and not looked at.
RelGet ==
    /\ \/ /\ relStep("rel_get", "Get", dwnURL(cfg), "GetErr")
          /\ UNCHANGED status
       \/ /\ relStep("rel_get", "Get", dwnURL(cfg), "nil")
          /\ status' \in {200, 404, 500}
    /\ UNCHANGED <<fs, content>>

\* out, err := os.Create(tarball)
RelCreate ==
    \/ /\ relStep("rel_create", "Create", tarball(cfg), "CreateErr")
       /\ UNCHANGED <<fs, status, content>>
    \/ /\ CanCreate(fs, tarball(cfg))
       /\ relStep("rel_create", "Create", tarball(cfg), "nil")
       /\ fs' = WithEntry(fs, tarball(cfg), "file")
       /\ content' = "empty"
       /\ UNCHANGED status

\* _, err = io.Copy(out, resp.Body): the body is the release archive when
\* the server answered with a success status, and its error page otherwise.
RelCopy ==
    /\ \/ /\ relStep("rel_copy", "Copy", tarball(cfg), "WriteErr")
          /\ content' = "truncated"
       \/ /\ relStep("rel_copy", "Copy", tarball(cfg), "nil")
          /\ content' = IF IsSuccessStatus(status) THEN "archive" ELSE "errorpage"
    /\ UNCHANGED <<fs, status>>

\* tb, err := os.Open(tarball)
RelOpen ==
    /\ \/ relStep("rel_open", "Open", tarball(cfg), "OpenErr")
       \/ /\ KindAt(fs, tarball(cfg)) = "file"
          /\ relStep("rel_open", "Open", tarball(cfg), "nil")
    /\ UNCHANGED <<fs, status, content>>

\* What util.Untar(dst, tb) can do to the file system and return.  Only a
\* release archive unpacks, into the directory named after the version right
\* under dst; it unpacks whole and nil is returned, or an error is returned
\* with nothing or a part of it unpacked.
Untar(f, dst, body, version) ==
    LET top == Join(dst, <<VersionedName(version)>>)
        can == /\ body = "archive"
               /\ IsDir(KindAt(f, dst))
               /\ KindAt(f, top) \in {"absent", "emptydir", "tree"}
        whole == [q \in DOMAIN f |-> IF IsPrefix(top, q) THEN "tree" ELSE f[q]]
    IN  {[fs |-> f, err |-> "UntarErr"]}
        \cup (IF can THEN { [fs |-> whole, err |-> "nil"],
                            [fs |-> WithEntry(f, top, "tree"), err |-> "UntarErr"],
                            [fs |-> whole, err |-> "UntarErr"] }
                     ELSE {})

\* err = util.Untar(i.Root, tb)
RelUntar ==
    /\ \E r \in Untar(fs, cfg.Root, content, cfg.Version) :
          /\ relStep("rel_untar", "Untar", cfg.Root, r.err)
          /\ fs' = r.fs
    /\ UNCHANGED <<status, content>>

\* err = os.Rename(oldPath, newPath)
RelRename ==
    /\ \/ /\ relStep("rel_rename", "Rename", <<oldPath(cfg), newPath(cfg)>>, "RenameErr")
          /\ UNCHANGED fs
       \/ /\ CanRename(fs, oldPath(cfg), newPath(cfg))
          /\ relStep("rel_rename", "Rename", <<oldPath(cfg), newPath(cfg)>>, "nil")
          /\ fs' = Renamed(fs, oldPath(cfg), newPath(cfg))
    /\ UNCHANGED <<status, content>>

-----------------------------------------------------------------------------
(* getDojoSource                                                           *)

\* CloneURL
CloneURL == "https://github.com/DefectDojo/django-DefectDojo.git"

\* plumbing.ReferenceName("refs/heads/" + i.SourceBranch)
ReferenceName(c) == "refs/heads/" \o c.SourceBranch

\* The commit honoured only when no branch is configured.
CommitConfiguredUnlessBranch(c) == Len(c.SourceCommit) > 0 /\ Len(c.SourceBranch) = 0

\* if len(i.SourceCommit) > 0
CommitConfigured(c) == Len(c.SourceCommit) > 0

\* The test for the missing branch made on the commit, which is empty there.
BranchMissingWrongField(c) == Len(c.SourceCommit) # 0

\* if len(i.SourceBranch) == 0, in the else branch of the test above
BranchMissing(c) == Len(c.SourceBranch) = 0

\* Where getDojoSource goes after a step that returned e.  The error of
\* os.MkdirAll and of either git.PlainClone is returned at once; the error
\* of repo.Worktree() is overwritten by the next statement, the checkout,
\* whose result is returned as it is.
srcNext(step, e) ==
    CASE step = "src_mkdir"    -> IF e # "nil" THEN "main_ret" ELSE "src_decide"
      [] step = "src_clone"    -> IF e # "nil" THEN "main_ret" ELSE "src_worktree"
      [] step = "src_worktree" -> "src_checkout"
      [] step = "src_checkout" -> "main_ret"
      [] step = "src_branch"   -> "main_ret"

\* One step of getDojoSource returned e, having made the call named name.
srcStep(step, name, arg, e) ==
    /\ pc = step
    /\ ops' = Append(ops, Op(name, arg, e))
    /\ pc' = srcNext(step, e)
    /\ ret' = IF pc' = "main_ret" THEN e ELSE ret
    /\ UNCHANGED <<cfg, fs0, calls, status, content, exitCode, errorLog, stdout>>

\* _, err := os.Stat(srcPath): os.MkdirAll is called only when it fails.
SrcStat ==
    /\ pc = "src_stat"
    /\ ops' = Append(ops, Op("Stat", srcPath(cfg), IF StatFails(fs, srcPath(cfg)) THEN "StatErr" ELSE "nil"))
    /\ pc' = IF StatFails(fs, srcPath(cfg)) THEN "src_mkdir" ELSE "src_decide"
    /\ UNCHANGED <<cfg, fs, fs0, ret, calls, status, content, exitCode, errorLog, stdout>>

\* err = os.MkdirAll(srcPath, 0755)
SrcMkdirAll ==
    \/ /\ srcStep("src_mkdir", "MkdirAll", srcPath(cfg), "MkdirErr")
       /\ fs' \in PartlyMadeDirs(fs, srcPath(cfg))
    \/ /\ CanMkdirAll(fs, srcPath(cfg))
       /\ srcStep("src_mkdir", "MkdirAll", srcPath(cfg), "nil")
       /\ fs' = MadeDirs(fs, srcPath(cfg))

\* The commit or branch decision: the commit when one is configured, else
\* the branch, else the error about both being empty.
SrcDecide ==
    /\ pc = "src_decide"
    /\ IF CommitConfigured(cfg)
         THEN pc' = "src_clone" /\ UNCHANGED ret
         ELSE IF BranchMissing(cfg)
                THEN pc' = "main_ret" /\ ret' = "ConfigErr"
                ELSE pc' = "src_branch" /\ UNCHANGED ret
    /\ UNCHANGED <<cfg, fs, fs0, ops, calls, status, content, exitCode, errorLog, stdout>>

\* What a git.PlainClone into path p can leave at p: a clone that fails may
\* have written a part of the repository into the directory.
AfterClone(f, p, e) ==
    IF ~IsDir(KindAt(f, p)) THEN {f}
    ELSE IF e = "nil" THEN {WithEntry(f, p, "tree")}
    ELSE {f, WithEntry(f, p, "tree")}

\* repo, err := git.PlainClone(srcPath, false, &git.CloneOptions{URL: CloneURL})
SrcClone ==
    \E e \in {"nil", "CloneErr"} :
        /\ e = "nil" => IsDir(KindAt(fs, srcPath(cfg)))
        /\ srcStep("src_clone", "PlainClone", CloneURL, e)
        /\ fs' \in AfterClone(fs, srcPath(cfg), e)

\* wk, err := repo.Worktree()
SrcWorktree ==
    /\ \E e \in {"nil", "WorktreeErr"} : srcStep("src_worktree", "Worktree", srcPath(cfg), e)
    /\ UNCHANGED fs

\* repo.Worktree() returned an error, and no usable worktree with it.
WorktreeMissing == ops # <<>> /\ ops[Len(ops)].op = "Worktree" /\ ops[Len(ops)].err = "WorktreeErr"

\* err = wk.Checkout(&git.CheckoutOptions{Hash: plumbing.NewHash(i.SourceCommit)})
\* Called on the worktree of a call that failed, the method may dereference
\* a nil pointer, which ends the process with a panic, or return as usual.
SrcCheckout ==
    \/ /\ \E e \in {"nil", "CheckoutErr"} : srcStep("src_checkout", "Checkout", cfg.SourceCommit, e)
       /\ UNCHANGED fs
    \/ /\ pc = "src_checkout"
       /\ WorktreeMissing
       /\ ops' = Append(ops, Op("Checkout", cfg.SourceCommit, "panic"))
       /\ pc' = "panicked"
       /\ exitCode' = 2
       /\ UNCHANGED <<cfg, fs, fs0, ret, calls, status, content, errorLog, stdout>>

\* _, err = git.PlainClone(srcPath, false, &git.CloneOptions{URL: CloneURL,
\*     ReferenceName: "refs/heads/" + i.SourceBranch, SingleBranch: true})
SrcBranchClone ==
    \E e \in {"nil", "CloneErr"} :
        /\ e = "nil" => IsDir(KindAt(fs, srcPath(cfg)))
        /\ srcStep("src_branch", "PlainCloneBranch", ReferenceName(cfg), e)
        /\ fs' \in AfterClone(fs, srcPath(cfg), e)

-----------------------------------------------------------------------------
(* main                                                                    *)

\* The two branches of main exchanged.
ChooseAcquirerSwapped(c) == IF c.SourceInstall THEN "getDojoRelease" ELSE "getDojoSource"

\* if conf.Install.SourceInstall { getDojoSource } else { getDojoRelease }
ChooseAcquirer(c) == IF c.SourceInstall THEN "getDojoSource" ELSE "getDojoRelease"

\* The first step of each acquirer.
Entry(f) == IF f = "getDojoSource" THEN "src_stat" ELSE "rel_get"

\* errorMsg(s): the banner on standard output unless Quiet, and the line
\* through the Error logger in any case.
errorMsg(s) ==
    /\ stdout' = IF ~cfg.Quiet THEN Append(stdout, "ERROR: " \o s) ELSE stdout
    /\ errorLog' = Append(errorLog, s)

\* main up to the acquisition.  Each failure ends the process with status 1:
\* of reading the configuration or of setting up the log, after a message on
\* standard output; of user.Current(), through log.Fatal, with nothing on
\* standard output; of writing the runtime configuration, after errorMsg,
\* the Error logger being set up by then.
MainStartup ==
    /\ pc = "main_start"
    /\ \/ /\ pc' = "exited"
          /\ exitCode' = 1
          /\ stdout' = Append(stdout, "exiting install")
          /\ UNCHANGED errorLog
       \/ /\ pc' = "exited"
          /\ exitCode' = 1
          /\ UNCHANGED <<stdout, errorLog>>
       \/ /\ pc' = "exited"
          /\ exitCode' = 1
          /\ errorMsg("Error from writing the runtime config")
       \/ /\ pc' = "main_dispatch"
          /\ UNCHANGED <<exitCode, stdout, errorLog>>
    /\ UNCHANGED <<cfg, fs, fs0, ret, ops, calls, status, content>>

\* The branch on conf.Install.SourceInstall and the call of the acquirer.
MainDispatch ==
    /\ pc = "main_dispatch"
    /\ calls' = Append(calls, ChooseAcquirer(cfg))
    /\ pc' = Entry(ChooseAcquirer(cfg))
    /\ UNCHANGED <<cfg, fs, fs0, ret, ops, status, content, exitCode, errorLog, stdout>>

\* if err != nil, after the acquirer returned
MainCheck ==
    /\ pc = "main_ret"
    /\ pc' = IF ret # "nil" THEN "main_errorMsg" ELSE "main_end"
    /\ UNCHANGED <<cfg, fs, fs0, ret, ops, calls, status, content, exitCode, errorLog, stdout>>

MainErrorMsg ==
    /\ pc = "main_errorMsg"
    /\ errorMsg(ret)
    /\ pc' = "main_exit"
    /\ UNCHANGED <<cfg, fs, fs0, ret, ops, calls, status, content, exitCode>>

\* os.Exit(1)
MainExit ==
    /\ pc = "main_exit"
    /\ exitCode' = 1
    /\ pc' = "exited"
    /\ UNCHANGED <<cfg, fs, fs0, ret, ops, calls, status, content, errorLog, stdout>>

\* fmt.Println("\n\nSuccefully reached the end of main") and the return of main
MainEnd ==
    /\ pc = "main_end"
    /\ stdout' = Append(stdout, "Succefully reached the end of main")
    /\ exitCode' = 0
    /\ pc' = "done"
    /\ UNCHANGED <<cfg, fs, fs0, ret, ops, calls, status, content, errorLog>>

-----------------------------------------------------------------------------

Next ==
    \/ MainStartup \/ MainDispatch
    \/ RelGet \/ RelCreate \/ RelCopy \/ RelOpen \/ RelUntar \/ RelRename
    \/ SrcStat \/ SrcMkdirAll \/ SrcDecide \/ SrcClone \/ SrcWorktree
    \/ SrcCheckout \/ SrcBranchClone
    \/ MainCheck \/ MainErrorMsg \/ MainExit \/ MainEnd

Spec == Init /\ [][Next]_vars

-----------------------------------------------------------------------------
(* Vocabulary of the properties                                            *)

OpNames == { ops[i].op : i \in DOMAIN ops }

\* The call named name was made and returned e.
Did(name, e) == \E i \in DOMAIN ops : ops[i].op = name /\ ops[i].err = e

ReleaseOps == {"Get", "Create", "Copy", "Open", "Untar", "Rename"}
SourceOps  == {"Stat", "MkdirAll", "PlainClone", "Worktree", "Checkout", "PlainCloneBranch"}

ReleasePcs == DOMAIN relSteps
SourcePcs  == {"src_stat", "src_mkdir", "src_decide", "src_clone", "src_worktree",
               "src_checkout", "src_branch"}

NoNetworkOp == OpNames \cap NetworkOps = {}

\* Root/Source
SourceDir == Join(cfg.Root, cfg.Source)

\* Root/django-DefectDojo-<Version>
VersionedDir == Join(cfg.Root, <<VersionedName(cfg.Version)>>)

-----------------------------------------------------------------------------
\* C1: once main has reached the acquisition, exactly one acquirer has been
\* invoked, exactly once; it is getDojoSource when SourceInstall is true and
\* getDojoRelease when it is false, no step of the other acquirer is ever
\* taken, and nothing is invoked again after the acquirer returned.
C1_OneAcquirer ==
    /\ Len(calls) <= 1
    /\ (pc \notin {"main_start", "main_dispatch"} /\ ~(pc = "exited" /\ ret = "none"))
          => Len(calls) = 1
    /\ calls # <<>> =>
          calls[1] = (IF cfg.SourceInstall THEN "getDojoSource" ELSE "getDojoRelease")
    /\ cfg.SourceInstall => (OpNames \cap ReleaseOps = {} /\ pc \notin ReleasePcs)
    /\ ~cfg.SourceInstall => (OpNames \cap SourceOps = {} /\ pc \notin SourcePcs)

\* The chosen acquirer, getDojoSource, failed and the process ended.
C1_Witness ==
    /\ cfg.SourceInstall
    /\ calls = <<"getDojoSource">>
    /\ ret = "CloneErr"
    /\ pc = "exited"

-----------------------------------------------------------------------------
BothEmpty == cfg.SourceInstall /\ cfg.SourceCommit = "" /\ cfg.SourceBranch = ""

\* C2 as claimed: with SourceInstall set and neither commit nor branch
\* configured, no network operation is ever performed and what the
\* acquisition returns is the configuration error.
C2_Original ==
    BothEmpty =>
        /\ NoNetworkOp
        /\ ret # "none" => ret = "ConfigErr"

\* C2 as amended: with SourceInstall set and neither commit nor branch
\* configured, no network operation is ever performed and the acquisition
\* returns an error: the error of os.MkdirAll when Root/Source could not be
\* created, and the configuration error in every other case.
C2_NoNetwork ==
    BothEmpty =>
        /\ NoNetworkOp
        /\ pc \notin {"src_clone", "src_worktree", "src_checkout", "src_branch",
                      "main_end", "done", "panicked"}
        /\ ret # "none" =>
              ret = (IF Did("MkdirAll", "MkdirErr") THEN "MkdirErr" ELSE "ConfigErr")

\* Neither is configured, the directory was there or was made, and the run
\* ended on the configuration error.
C2_Witness ==
    /\ BothEmpty
    /\ ret = "ConfigErr"
    /\ pc = "exited"

-----------------------------------------------------------------------------
\* C3: in getDojoSource with a commit configured, whatever the branch, the
\* calls into git are the full clone, then the worktree, then the checkout
\* of the configured commit and nothing else; the clone of a single branch
\* is never made; and an error returned by the clone or by the checkout is
\* what getDojoSource returns.
C3_CommitWins ==
    (cfg.SourceInstall /\ cfg.SourceCommit # "") =>
        /\ "PlainCloneBranch" \notin OpNames
        /\ pc # "src_branch"
        /\ ret # "ConfigErr"
        /\ \A i \in DOMAIN ops :
              /\ ops[i].op = "PlainClone" =>
                    /\ ops[i].arg = CloneURL
                    /\ \A j \in DOMAIN ops : ops[j].op = "PlainClone" => j = i
              /\ ops[i].op = "Checkout" =>
                    /\ ops[i].arg = cfg.SourceCommit
                    /\ i > 2
                    /\ ops[i-1].op = "Worktree"
                    /\ ops[i-2].op = "PlainClone" /\ ops[i-2].err = "nil"
                    /\ i = Len(ops)
        /\ Did("PlainClone", "CloneErr") =>
              (ret = "CloneErr" /\ OpNames \cap {"Worktree", "Checkout"} = {})
        /\ Did("Checkout", "CheckoutErr") => ret = "CheckoutErr"

\* Commit and branch are both configured, the checkout of the commit failed
\* and the run ended.
C3_Witness ==
    /\ cfg.SourceInstall
    /\ cfg.SourceCommit # ""
    /\ cfg.SourceBranch # ""
    /\ Did("Checkout", "CheckoutErr")
    /\ pc = "exited"

-----------------------------------------------------------------------------
\* C4 as claimed: when the GET is answered with a status that is not a
\* success, getDojoRelease returns an error and neither creates nor writes
\* the tarball, nor extracts, nor renames.
C4_StatusChecked ==
    (status # 0 /\ ~IsSuccessStatus(status)) =>
        /\ ret \in Errors
        /\ OpNames \cap {"Create", "Copy", "Open", "Untar", "Rename"} = {}

-----------------------------------------------------------------------------
ReleaseRun == calls = <<"getDojoRelease">>

\* Every step of getDojoRelease was taken and succeeded, the rename last.
AllReleaseStepsDone ==
    /\ Len(ops) = Cardinality(ReleaseOps)
    /\ \A i \in DOMAIN ops : ops[i].err = "nil"
    /\ ops[Len(ops)].op = "Rename"

\* Root/Source exists as a directory only once the rename has been made,
\* after every earlier step succeeded; so not when getDojoRelease failed.
OnlyByRename ==
    /\ IsDir(KindAt(fs, SourceDir)) => AllReleaseStepsDone
    /\ ret \in Errors => ~IsDir(KindAt(fs, SourceDir))

\* C5 as claimed: on the archive path, when Root/Source did not exist at the
\* start, it exists as a directory only through the final rename, made after
\* the download, the write and the extraction all succeeded; whenever
\* getDojoRelease has failed there is no directory Root/Source.
C5_Original ==
    (ReleaseRun /\ KindAt(fs0, SourceDir) = "absent") => OnlyByRename

\* The same holds for every Source for which Root/Source is not the
\* directory the archive unpacks to (Root/django-DefectDojo-<Version>) nor a
\* path inside it.
OnlyByRenameElsewhere ==
    (/\ ReleaseRun
     /\ KindAt(fs0, SourceDir) = "absent"
     /\ ~IsPrefix(VersionedDir, SourceDir)) => OnlyByRename

-----------------------------------------------------------------------------
\* After a success there is a directory at Root/Source and none under the
\* versioned name.
RenamedIntoPlace ==
    /\ IsDir(KindAt(fs, SourceDir))
    /\ ~IsDir(KindAt(fs, VersionedDir))

\* C6: with SourceInstall false, whenever getDojoRelease returns nil there
\* is a directory at Root/Source and no directory under the versioned name
\* is left in Root, for every Source and Version.  (When Source is the
\* versioned name os.Rename finds the directory at its target and returns
\* EEXIST, so nil is not returned.)
C6_RenamedIntoPlace ==
    (ReleaseRun /\ ret = "nil") => RenamedIntoPlace

\* A release install succeeded, the tree is at Root/Source and main ended.
C6_Witness ==
    /\ ReleaseRun
    /\ ret = "nil"
    /\ Did("Rename", "nil")
    /\ KindAt(fs, SourceDir) = "tree"
    /\ pc = "done"

\* The run with Source the versioned name: extracted, then the rename failed.
C6_SameNameFails ==
    (ReleaseRun /\ SourceDir = VersionedDir /\ "Rename" \in OpNames) =>
        (ret = "RenameErr" /\ IsDir(KindAt(fs, VersionedDir)))

-----------------------------------------------------------------------------
\* A step of an acquirer failed: the call returned an error.  The error of
\* os.Stat is the answer "not there" that getDojoSource asks for.
StepFailed(o) == o.op # "Stat" /\ o.err # "nil"

\* C7 as claimed: once a step of an acquirer has failed no later step of it
\* is taken, the acquirer has returned the error of that step, and the HTTP
\* GET and each git clone are made at most once.
C7_FailedIsTerminal ==
    /\ \A i \in DOMAIN ops :
          StepFailed(ops[i]) => (i = Len(ops) /\ ret = ops[i].err)
    /\ \A n \in NetworkOps : Cardinality({ i \in DOMAIN ops : ops[i].op = n }) <= 1

-----------------------------------------------------------------------------
\* C8 as claimed: on the commit path, once repo.Worktree() or the checkout
\* has reported an error, getDojoSource has returned that error: it does
\* not go on to the next sub-step and does not return nil.
C8_NoErrorSwallowed ==
    /\ Did("Worktree", "WorktreeErr") => ret = "WorktreeErr"
    /\ Did("Checkout", "CheckoutErr") => ret = "CheckoutErr"

-----------------------------------------------------------------------------
\* C9 as claimed: whatever was at Root/Source at the start, Root/Source is a
\* directory when getDojoSource decides between commit and branch and when
\* it clones; otherwise it has returned an error without cloning.
C9_SourceIsDirectory ==
    /\ pc \in {"src_decide", "src_clone", "src_branch"} => IsDir(KindAt(fs, SourceDir))
    /\ Did("MkdirAll", "MkdirErr") =>
          (ret = "MkdirErr" /\ OpNames \cap {"PlainClone", "PlainCloneBranch"} = {})

-----------------------------------------------------------------------------
\* C10 as claimed: the process never ends inside an acquirer; when the
\* acquirer returned an error main writes it through the Error logger and
\* then exits with status 1; the end of main is reached only after the
\* acquirer returned nil.
C10_CallerDecides ==
    /\ exitCode # -1 => pc \in {"exited", "done"}
    /\ pc \in {"main_end", "done"} => ret = "nil"
    /\ pc = "main_exit" => (ret \in Errors /\ errorLog = <<ret>>)
    /\ (pc = "exited" /\ calls # <<>>) =>
          (ret \in Errors /\ errorLog = <<ret>> /\ exitCode = 1)
    /\ exitCode = 0 => (pc = "done" /\ errorLog = <<>>)

====
